---------------------------- MODULE Spec2Model ----------------------------
(***************************************************************************)
(* Model of the portfolio backend (src/server.js): an Express application  *)
(* whose routes map one to one onto Mongoose operations on six             *)
(* collections, with an optional image upload to a blob store before the   *)
(* store write.                                                            *)
(*                                                                         *)
(* A JavaScript object is a function from its keys to their values: an     *)
(* absent key is a key outside the DOMAIN.  A document is such a function  *)
(* with an _id key.  A collection is the sequence of its documents in      *)
(* insertion (natural) order.                                              *)
(***************************************************************************)
EXTENDS Integers, Sequences, FiniteSets

(***************************************************************************)
(* Bounds of the model.                                                    *)
(***************************************************************************)
MaxWrites == 2       \* POST and PUT requests the clients send in one behaviour
MaxClock == 2        \* readings of Date.now: 1..MaxClock

\* The requests that can be in flight at the same time.
Slots == {"r1", "r2"}

Kinds == {"Profile", "Project", "Experience", "Certification", "Contact", "Testimonial"}

\* The text the n-th POST or PUT request carries in its text fields.
Texts == <<"a", "b", "c", "d", "e", "f">>

\* The secure_url the blob store returns for the file of the n-th request.
Urls == <<"u1", "u2", "u3", "u4", "u5", "u6">>

VARIABLES
    profiles,        \* the Profile collection
    projects,        \* the Project collection
    experiences,     \* the Experience collection
    certifications,  \* the Certification collection
    contacts,        \* the Contact collection
    testimonials,    \* the Testimonial collection
    nextId,          \* the next ObjectId the store generates
    now,             \* the last reading of Date.now
    uploaded,        \* the URLs the blob store has returned so far
    inflight,        \* per slot: the request being handled, with its locals
    last,            \* the last completed exchange: route, store result, response
    issued,          \* the number of POST and PUT requests received so far
    focus            \* the record kind whose routes the clients call

store == <<profiles, projects, experiences, certifications, contacts, testimonials>>
vars == <<profiles, projects, experiences, certifications, contacts, testimonials,
          nextId, now, uploaded, inflight, last, issued, focus>>

(***************************************************************************)
(* JavaScript objects.                                                     *)
(***************************************************************************)
EmptyObj == [k \in {} |-> ""]

\* { ...base, ...over }: the keys of both, over's value where both have the key.
Spread(base, over) ==
    [k \in (DOMAIN base) \cup (DOMAIN over) |->
        IF k \in DOMAIN over THEN over[k] ELSE base[k]]

\* The object without the keys in ks.
Omit(obj, ks) == [k \in (DOMAIN obj) \ ks |-> obj[k]]

\* The object restricted to the keys in ks.
Pick(obj, ks) == [k \in (DOMAIN obj) \cap ks |-> obj[k]]

\* The value the n-th request sends for key k: rating is a number, createdAt
\* a date before every reading of the clock, the other keys are text.
FieldValue(k, n) ==
    CASE k = "rating" -> n
      [] k = "createdAt" -> 0
      [] OTHER -> Texts[n]

\* Request bodies of the n-th request: the keys of one of the shapes.
Bodies(shapes, n) == {[k \in s |-> FieldValue(k, n)] : s \in shapes}

\* Mutant of Falsy: only a missing key counts, an empty string passes.
FalsyMissingOnly(body, k) == k \notin DOMAIN body

\* !body[k]: the key is missing or its value is the empty string.
Falsy(body, k) == k \notin DOMAIN body \/ body[k] = ""

(***************************************************************************)
(* The record store (Mongoose models).                                     *)
(***************************************************************************)
Ids(coll) == {coll[i]._id : i \in 1..Len(coll)}

IndexOf(coll, id) == CHOOSE i \in 1..Len(coll) : coll[i]._id = id

\* Model.create(fields): a new document with a generated _id, appended.
CreateDoc(coll, fields, id) == Append(coll, Spread(fields, [_id |-> id]))

\* Mutant of UpdateById: the document is replaced by the fields given.
UpdateByIdReplace(coll, id, fields) ==
    [i \in 1..Len(coll) |->
        IF coll[i]._id = id THEN Spread(Omit(fields, {"_id"}), [_id |-> id]) ELSE coll[i]]

\* Mutant of UpdateById: a document is made when the id matches none (upsert).
UpdateByIdUpsert(coll, id, fields) ==
    IF \E i \in 1..Len(coll) : coll[i]._id = id
    THEN [i \in 1..Len(coll) |->
            IF coll[i]._id = id THEN Spread(coll[i], Omit(fields, {"_id"})) ELSE coll[i]]
    ELSE Append(coll, Spread(fields, [_id |-> id]))

\* Model.findByIdAndUpdate(id, fields, {new: true}): the fields given are set
\* on the document with that id, the other fields stay; no document is made
\* when the id matches none.
UpdateById(coll, id, fields) ==
    [i \in 1..Len(coll) |->
        IF coll[i]._id = id THEN Spread(coll[i], Omit(fields, {"_id"})) ELSE coll[i]]

\* Mutant of DeleteById: the oldest document goes when the id matches none.
DeleteByIdOrOldest(coll, id) ==
    IF \E i \in 1..Len(coll) : coll[i]._id = id
    THEN SelectSeq(coll, LAMBDA d : d._id # id)
    ELSE IF Len(coll) = 0 THEN coll ELSE Tail(coll)

\* Model.findByIdAndDelete(id).
DeleteById(coll, id) == SelectSeq(coll, LAMBDA d : d._id # id)

\* What findById... resolves to: the document, or null.
Null == [null |-> TRUE]
FoundById(coll, id) == IF id \in Ids(coll) THEN coll[IndexOf(coll, id)] ELSE Null

\* Model.findOne(): the first document in natural order, or null.
FindOne(coll) == IF Len(coll) = 0 THEN Null ELSE coll[1]

(***************************************************************************)
(* Requests and exchanges.                                                 *)
(***************************************************************************)
Idle == [route |-> "idle"]

\* A request being handled, the n-th POST or PUT: url is the local holding
\* secure_url ("" while undefined), existing the _id of the document findOne
\* resolved to (0: null).  solo is history: no other request has been in
\* flight since this one arrived.
Request(route, id, body, file, pc) ==
    [route |-> route, id |-> id, body |-> body, file |-> file, pc |-> pc,
     n |-> issued + 1, url |-> "", existing |-> 0, solo |-> TRUE]

NoneInFlight == \A t \in Slots : inflight[t] = Idle

\* The handler of req starts in slot s.
Admit(s, req) ==
    inflight' = [t \in Slots |->
        IF t = s THEN [req EXCEPT !.solo = NoneInFlight]
        ELSE IF inflight[t] = Idle THEN Idle
        ELSE [inflight[t] EXCEPT !.solo = FALSE]]

\* A completed exchange: status 0 stands for a request left unanswered.
Exchange(route, id, body, solo, status, result, json) ==
    [route |-> route, id |-> id, body |-> body, solo |-> solo,
     status |-> status, result |-> result, json |-> json]

Answered(r, status, result, json) ==
    Exchange(r.route, r.id, r.body, r.solo, status, result, json)

\* res.status(500).json({ error: e.message })
ErrorJson(msg) == [error |-> msg]

\* An async handler without try/catch whose awaited call rejects: the
\* rejection is unhandled and nothing is sent.
Unanswered(route, id, body) == Exchange(route, id, body, NoneInFlight, 0, Null, Null)

FreeSlot(s) == inflight[s] = Idle

\* A POST or PUT request arrives.
Receive == issued < MaxWrites /\ issued' = issued + 1

\* The ids a client puts in a path: those generated so far and one never generated.
ParamIds == 1..nextId

\* Date.now(): a reading not before the last one.
Readings == now..MaxClock

(***************************************************************************)
(* The blob store: uploadToCloudinary.                                     *)
(***************************************************************************)
UploadRoutes == {"POST /api/profile", "POST /api/projects", "PUT /api/projects/:id",
                 "POST /api/certifications"}

\* Where a handler continues once its upload has resolved.
AfterUpload(route) == IF route = "POST /api/profile" THEN "findOne" ELSE "write"

\* if (req.file) { const r = await uploadToCloudinary(...); photo = r.secure_url; }
\* the upload resolves.
UploadResolve(s) ==
    /\ inflight[s] # Idle
    /\ inflight[s].pc = "upload"
    /\ uploaded' = uploaded \cup {Urls[inflight[s].n]}
    /\ inflight' = [inflight EXCEPT ![s].url = Urls[inflight[s].n],
                                    ![s].pc = AfterUpload(inflight[s].route)]
    /\ UNCHANGED <<store, nextId, now, last, issued, focus>>

\* Mutant of UploadReject: the rejection is swallowed and the handler goes on
\* without a URL.
UploadRejectIgnored(s) ==
    /\ inflight[s] # Idle
    /\ inflight[s].pc = "upload"
    /\ inflight' = [inflight EXCEPT ![s].pc = AfterUpload(inflight[s].route)]
    /\ UNCHANGED <<store, nextId, now, uploaded, last, issued, focus>>

\* The upload rejects: the catch block answers 500 and the handler ends.
UploadReject(s) ==
    /\ inflight[s] # Idle
    /\ inflight[s].pc = "upload"
    /\ last' = Answered(inflight[s], 500, Null, ErrorJson("upload failed"))
    /\ inflight' = [inflight EXCEPT ![s] = Idle]
    /\ UNCHANGED <<store, nextId, now, uploaded, issued, focus>>

(***************************************************************************)
(* PROFILE                                                                 *)
(***************************************************************************)
ProfileFields == {"name", "title", "bio", "photo"}

ProfileShapes == {{}, {"name"}, {"photo"}, {"name", "title", "bio", "photo"}}

\* Mutant of ProfileData: { ...(photo && { photo }), ...req.body }.
ProfileDataBodyWins(body, photo) ==
    Spread(IF photo # "" THEN [photo |-> photo] ELSE EmptyObj, body)

\* const data = { ...req.body, ...(photo && { photo }) };
ProfileData(body, photo) ==
    Spread(body, IF photo # "" THEN [photo |-> photo] ELSE EmptyObj)

\* app.post("/api/profile", upload.single("photo"), ...): the request arrives
\* and the handler runs to its first await.
PostProfile(s) ==
    /\ focus = "Profile"
    /\ FreeSlot(s)
    /\ Receive
    /\ \E body \in Bodies(ProfileShapes, issued + 1), file \in BOOLEAN :
        Admit(s, Request("POST /api/profile", 0, body, file,
                         IF file THEN "upload" ELSE "findOne"))
    /\ UNCHANGED <<store, nextId, now, uploaded, last, focus>>

\* const existing = await Profile.findOne();
ProfileFindOne(s) ==
    /\ inflight[s] # Idle
    /\ inflight[s].route = "POST /api/profile"
    /\ inflight[s].pc = "findOne"
    /\ \/ /\ inflight' = [inflight EXCEPT
                ![s].existing = IF Len(profiles) = 0 THEN 0 ELSE FindOne(profiles)._id,
                ![s].pc = "write"]
          /\ UNCHANGED last
       \/ /\ last' = Answered(inflight[s], 500, Null, ErrorJson("store failed"))
          /\ inflight' = [inflight EXCEPT ![s] = Idle]
    /\ UNCHANGED <<store, nextId, now, uploaded, issued, focus>>

\* existing ? await Profile.findByIdAndUpdate(existing._id, data, { new: true })
\*          : await Profile.create(data);   res.json(result);
ProfileWrite(s) ==
    LET r == inflight[s]
        data == ProfileData(r.body, r.url)
    IN  /\ r # Idle
        /\ r.route = "POST /api/profile"
        /\ r.pc = "write"
        /\ \/ /\ r.existing # 0
              /\ profiles' = UpdateById(profiles, r.existing, data)
              /\ last' = Answered(r, 200, FoundById(profiles', r.existing),
                                  FoundById(profiles', r.existing))
              /\ UNCHANGED nextId
           \/ /\ r.existing = 0
              /\ profiles' = CreateDoc(profiles, data, nextId)
              /\ nextId' = nextId + 1
              /\ last' = Answered(r, 200, profiles'[Len(profiles')],
                                  profiles'[Len(profiles')])
           \/ /\ last' = Answered(r, 500, Null, ErrorJson("store failed"))
              /\ UNCHANGED <<profiles, nextId>>
        /\ inflight' = [inflight EXCEPT ![s] = Idle]
        /\ UNCHANGED <<projects, experiences, certifications, contacts, testimonials,
                       now, uploaded, issued, focus>>

\* app.get("/api/profile"): res.json(await Profile.findOne())
GetProfile ==
    /\ focus = "Profile"
    /\ \/ last' = Exchange("GET /api/profile", 0, EmptyObj, NoneInFlight, 200,
                           FindOne(profiles), FindOne(profiles))
       \/ last' = Unanswered("GET /api/profile", 0, EmptyObj)
    /\ UNCHANGED <<store, nextId, now, uploaded, inflight, issued, focus>>

(***************************************************************************)
(* PROJECTS                                                                *)
(***************************************************************************)
\* A string that is split is a sequence of characters.
TechInputs == {<<"G", ",", "R">>, <<"G", ",", " ", "R">>}

HasComma(str) == \E i \in 1..Len(str) : str[i] = ","

FirstComma(str) == CHOOSE i \in 1..Len(str) :
                       str[i] = "," /\ \A j \in 1..(i - 1) : str[j] # ","

\* String.prototype.split(","): the substrings between the commas, in order.
RECURSIVE Split(_)
Split(str) ==
    IF HasComma(str)
    THEN <<SubSeq(str, 1, FirstComma(str) - 1)>>
             \o Split(SubSeq(str, FirstComma(str) + 1, Len(str)))
    ELSE <<str>>

ProjectShapes == {{}, {"title", "description", "image", "github", "live"}}

\* Bodies of the n-th request to a project route: text fields, or a title and tech.
ProjectBodies(n) ==
    Bodies(ProjectShapes, n)
        \cup {[title |-> Texts[n], tech |-> str] : str \in TechInputs}

\* tech: req.body.tech?.split(",")
TechOf(body) ==
    IF "tech" \in DOMAIN body THEN [tech |-> Split(body.tech)] ELSE EmptyObj

\* { ...req.body, tech: req.body.tech?.split(","), image }: the keys tech and
\* image are always in the literal, undefined when there is no tech field or
\* no file; Mongoose leaves an undefined key unset.
ProjectCreateData(body, image) ==
    Spread(Spread(Omit(body, {"tech", "image"}), TechOf(body)),
           IF image # "" THEN [image |-> image] ELSE EmptyObj)

\* The Project schema: tech is [String], and an array path that is not set
\* defaults to the empty array.
ProjectSchema(fields) ==
    IF "tech" \in DOMAIN fields THEN fields ELSE Spread(fields, [tech |-> <<>>])

\* { ...req.body, tech: req.body.tech?.split(","), ...(image && { image }) }:
\* Mongoose strips the undefined tech key from an update.
ProjectUpdateData(body, image) ==
    Spread(Spread(Omit(body, {"tech"}), TechOf(body)),
           IF image # "" THEN [image |-> image] ELSE EmptyObj)

\* app.post("/api/projects", upload.single("image"), ...): the request arrives.
PostProject(s) ==
    /\ focus = "Project"
    /\ FreeSlot(s)
    /\ Receive
    /\ \E body \in ProjectBodies(issued + 1), file \in BOOLEAN :
        Admit(s, Request("POST /api/projects", 0, body, file,
                         IF file THEN "upload" ELSE "write"))
    /\ UNCHANGED <<store, nextId, now, uploaded, last, focus>>

\* const project = await Project.create({...}); res.json(project);
ProjectCreate(s) ==
    LET r == inflight[s]
    IN  /\ r # Idle
        /\ r.route = "POST /api/projects"
        /\ r.pc = "write"
        /\ \/ /\ projects' = CreateDoc(projects,
                                ProjectSchema(ProjectCreateData(r.body, r.url)), nextId)
              /\ nextId' = nextId + 1
              /\ last' = Answered(r, 200, projects'[Len(projects')],
                                  projects'[Len(projects')])
           \/ /\ last' = Answered(r, 500, Null, ErrorJson("store failed"))
              /\ UNCHANGED <<projects, nextId>>
        /\ inflight' = [inflight EXCEPT ![s] = Idle]
        /\ UNCHANGED <<profiles, experiences, certifications, contacts, testimonials,
                       now, uploaded, issued, focus>>

\* app.put("/api/projects/:id", upload.single("image"), ...): the request arrives.
PutProject(s) ==
    /\ focus = "Project"
    /\ FreeSlot(s)
    /\ Receive
    /\ \E id \in ParamIds, body \in ProjectBodies(issued + 1), file \in BOOLEAN :
        Admit(s, Request("PUT /api/projects/:id", id, body, file,
                         IF file THEN "upload" ELSE "write"))
    /\ UNCHANGED <<store, nextId, now, uploaded, last, focus>>

\* res.json(await Project.findByIdAndUpdate(req.params.id, {...}, { new: true }));
ProjectUpdate(s) ==
    LET r == inflight[s]
    IN  /\ r # Idle
        /\ r.route = "PUT /api/projects/:id"
        /\ r.pc = "write"
        /\ \/ /\ projects' = UpdateById(projects, r.id, ProjectUpdateData(r.body, r.url))
              /\ last' = Answered(r, 200, FoundById(projects', r.id),
                                  FoundById(projects', r.id))
           \/ /\ last' = Answered(r, 500, Null, ErrorJson("store failed"))
              /\ UNCHANGED projects
        /\ inflight' = [inflight EXCEPT ![s] = Idle]
        /\ UNCHANGED <<profiles, experiences, certifications, contacts, testimonials,
                       nextId, now, uploaded, issued, focus>>

\* app.get("/api/projects"): res.json(await Project.find())
GetProjects ==
    /\ focus = "Project"
    /\ \/ last' = Exchange("GET /api/projects", 0, EmptyObj, NoneInFlight, 200, projects, projects)
       \/ last' = Unanswered("GET /api/projects", 0, EmptyObj)
    /\ UNCHANGED <<store, nextId, now, uploaded, inflight, issued, focus>>

\* app.delete("/api/projects/:id"): await Project.findByIdAndDelete(req.params.id);
\* res.json({ message: "Project deleted" });
DeleteProject ==
    /\ focus = "Project"
    /\ \E id \in ParamIds :
        \/ /\ projects' = DeleteById(projects, id)
           /\ last' = Exchange("DELETE /api/projects/:id", id, EmptyObj, NoneInFlight, 200,
                               FoundById(projects, id), [message |-> "Project deleted"])
        \/ /\ last' = Unanswered("DELETE /api/projects/:id", id, EmptyObj)
           /\ UNCHANGED projects
    /\ UNCHANGED <<profiles, experiences, certifications, contacts, testimonials,
                   nextId, now, uploaded, inflight, issued, focus>>

(***************************************************************************)
(* EXPERIENCE                                                              *)
(***************************************************************************)
ExperienceShapes == {{}, {"company"},
                     {"company", "role", "startDate", "endDate", "description"}}

\* app.post("/api/experience"): res.json(await Experience.create(req.body))
PostExperience ==
    /\ focus = "Experience"
    /\ Receive
    /\ \E body \in Bodies(ExperienceShapes, issued + 1) :
        \/ /\ experiences' = CreateDoc(experiences, body, nextId)
           /\ nextId' = nextId + 1
           /\ last' = Exchange("POST /api/experience", 0, body, NoneInFlight, 200,
                               experiences'[Len(experiences')],
                               experiences'[Len(experiences')])
        \/ /\ last' = Unanswered("POST /api/experience", 0, body)
           /\ UNCHANGED <<experiences, nextId>>
    /\ UNCHANGED <<profiles, projects, certifications, contacts, testimonials,
                   now, uploaded, inflight, focus>>

\* app.get("/api/experience"): res.json(await Experience.find())
GetExperience ==
    /\ focus = "Experience"
    /\ \/ last' = Exchange("GET /api/experience", 0, EmptyObj, NoneInFlight, 200,
                           experiences, experiences)
       \/ last' = Unanswered("GET /api/experience", 0, EmptyObj)
    /\ UNCHANGED <<store, nextId, now, uploaded, inflight, issued, focus>>

\* app.put("/api/experience/:id"):
\* res.json(await Experience.findByIdAndUpdate(req.params.id, req.body, { new: true }))
PutExperience ==
    /\ focus = "Experience"
    /\ Receive
    /\ \E id \in ParamIds, body \in Bodies(ExperienceShapes, issued + 1) :
        \/ /\ experiences' = UpdateById(experiences, id, body)
           /\ last' = Exchange("PUT /api/experience/:id", id, body, NoneInFlight, 200,
                               FoundById(experiences', id), FoundById(experiences', id))
        \/ /\ last' = Unanswered("PUT /api/experience/:id", id, body)
           /\ UNCHANGED experiences
    /\ UNCHANGED <<profiles, projects, certifications, contacts, testimonials,
                   nextId, now, uploaded, inflight, focus>>

\* app.delete("/api/experience/:id")
DeleteExperience ==
    /\ focus = "Experience"
    /\ \E id \in ParamIds :
        \/ /\ experiences' = DeleteById(experiences, id)
           /\ last' = Exchange("DELETE /api/experience/:id", id, EmptyObj, NoneInFlight, 200,
                               FoundById(experiences, id),
                               [message |-> "Experience deleted"])
        \/ /\ last' = Unanswered("DELETE /api/experience/:id", id, EmptyObj)
           /\ UNCHANGED experiences
    /\ UNCHANGED <<profiles, projects, certifications, contacts, testimonials,
                   nextId, now, uploaded, inflight, issued, focus>>

(***************************************************************************)
(* CERTIFICATIONS                                                          *)
(***************************************************************************)
CertificationShapes == {{}, {"name"}, {"name", "issuer", "year", "image"}}

\* { ...req.body, image }: image is undefined, and so unset, without a file.
CertificationData(body, image) ==
    Spread(Omit(body, {"image"}), IF image # "" THEN [image |-> image] ELSE EmptyObj)

\* app.post("/api/certifications", upload.single("image"), ...): the request arrives.
PostCertification(s) ==
    /\ focus = "Certification"
    /\ FreeSlot(s)
    /\ Receive
    /\ \E body \in Bodies(CertificationShapes, issued + 1), file \in BOOLEAN :
        Admit(s, Request("POST /api/certifications", 0, body, file,
                         IF file THEN "upload" ELSE "write"))
    /\ UNCHANGED <<store, nextId, now, uploaded, last, focus>>

\* res.json(await Certification.create({ ...req.body, image }));
CertificationCreate(s) ==
    LET r == inflight[s]
    IN  /\ r # Idle
        /\ r.route = "POST /api/certifications"
        /\ r.pc = "write"
        /\ \/ /\ certifications' = CreateDoc(certifications,
                                      CertificationData(r.body, r.url), nextId)
              /\ nextId' = nextId + 1
              /\ last' = Answered(r, 200, certifications'[Len(certifications')],
                                  certifications'[Len(certifications')])
           \/ /\ last' = Answered(r, 500, Null, ErrorJson("store failed"))
              /\ UNCHANGED <<certifications, nextId>>
        /\ inflight' = [inflight EXCEPT ![s] = Idle]
        /\ UNCHANGED <<profiles, projects, experiences, contacts, testimonials,
                       now, uploaded, issued, focus>>

\* app.get("/api/certifications"): res.json(await Certification.find())
GetCertifications ==
    /\ focus = "Certification"
    /\ \/ last' = Exchange("GET /api/certifications", 0, EmptyObj, NoneInFlight, 200,
                           certifications, certifications)
       \/ last' = Unanswered("GET /api/certifications", 0, EmptyObj)
    /\ UNCHANGED <<store, nextId, now, uploaded, inflight, issued, focus>>

\* app.delete("/api/certifications/:id")
DeleteCertification ==
    /\ focus = "Certification"
    /\ \E id \in ParamIds :
        \/ /\ certifications' = DeleteById(certifications, id)
           /\ last' = Exchange("DELETE /api/certifications/:id", id, EmptyObj, NoneInFlight, 200,
                               FoundById(certifications, id), [message |-> "Deleted"])
        \/ /\ last' = Unanswered("DELETE /api/certifications/:id", id, EmptyObj)
           /\ UNCHANGED certifications
    /\ UNCHANGED <<profiles, projects, experiences, contacts, testimonials,
                   nextId, now, uploaded, inflight, issued, focus>>

(***************************************************************************)
(* Sorted listings                                                         *)
(***************************************************************************)
Orders(n) == {p \in [1..n -> 1..n] : \A i, j \in 1..n : i # j => p[i] # p[j]}

\* Model.find().sort({ createdAt: -1 }): the documents by descending createdAt;
\* the store may list documents of equal createdAt in either order.
SortedByCreatedAtDesc(coll) ==
    {[i \in 1..Len(coll) |-> coll[p[i]]] : p \in
        {q \in Orders(Len(coll)) :
            \A i, j \in 1..Len(coll) :
                i < j => coll[q[i]].createdAt >= coll[q[j]].createdAt}}

(***************************************************************************)
(* CONTACT                                                                 *)
(***************************************************************************)
ContactRequired == {"name", "email", "message"}

\* Bodies of the n-th contact request: the three required fields, with or
\* without phone or createdAt, or with one required field missing or empty.
ContactBodies(n) ==
    LET full == [k \in ContactRequired |-> Texts[n]]
    IN  {full, Spread(full, [phone |-> Texts[n]]), Spread(full, [createdAt |-> 0])}
            \cup {Omit(full, {k}) : k \in ContactRequired}
            \cup {[full EXCEPT ![k] = ""] : k \in ContactRequired}

\* The Contact schema: createdAt: { type: Date, default: Date.now }.
ContactSchema(fields, reading) ==
    IF "createdAt" \in DOMAIN fields THEN fields
    ELSE Spread(fields, [createdAt |-> reading])

\* app.post("/api/contact") of the serverless entry point: Contact.create(req.body)
PostContact ==
    /\ focus = "Contact"
    /\ Receive
    /\ \E body \in ContactBodies(issued + 1) :
        IF Falsy(body, "name") \/ Falsy(body, "email") \/ Falsy(body, "message")
        THEN /\ last' = Exchange("POST /api/contact", 0, body, NoneInFlight, 400, Null,
                                 ErrorJson("All fields required"))
             /\ UNCHANGED <<contacts, nextId, now>>
        ELSE \/ \E reading \in Readings :
                  /\ now' = reading
                  /\ contacts' = CreateDoc(contacts, ContactSchema(body, reading), nextId)
                  /\ nextId' = nextId + 1
                  /\ last' = Exchange("POST /api/contact", 0, body, NoneInFlight, 200,
                                      contacts'[Len(contacts')], [success |-> TRUE])
             \/ /\ last' = Unanswered("POST /api/contact", 0, body)
                /\ UNCHANGED <<contacts, nextId, now>>
    /\ UNCHANGED <<profiles, projects, experiences, certifications, testimonials,
                   uploaded, inflight, focus>>

\* app.post("/api/contact") of the standalone server:
\* Contact.create({ name, email, phone, message })
PostContactPicked ==
    /\ focus = "Contact"
    /\ Receive
    /\ \E body \in ContactBodies(issued + 1) :
        IF Falsy(body, "name") \/ Falsy(body, "email") \/ Falsy(body, "message")
        THEN /\ last' = Exchange("POST /api/contact", 0, body, NoneInFlight, 400, Null,
                                 ErrorJson("All fields required"))
             /\ UNCHANGED <<contacts, nextId, now>>
        ELSE \/ \E reading \in Readings :
                  /\ now' = reading
                  /\ contacts' = CreateDoc(contacts,
                        ContactSchema(Pick(body, {"name", "email", "phone", "message"}),
                                      reading), nextId)
                  /\ nextId' = nextId + 1
                  /\ last' = Exchange("POST /api/contact", 0, body, NoneInFlight, 200,
                                      contacts'[Len(contacts')],
                                      [success |-> TRUE,
                                       message |-> "Message sent successfully"])
             \/ /\ last' = Unanswered("POST /api/contact", 0, body)
                /\ UNCHANGED <<contacts, nextId, now>>
    /\ UNCHANGED <<profiles, projects, experiences, certifications, testimonials,
                   uploaded, inflight, focus>>

\* app.get("/api/contact"): res.json(await Contact.find().sort({ createdAt: -1 }))
GetContacts ==
    /\ focus = "Contact"
    /\ \/ \E list \in SortedByCreatedAtDesc(contacts) :
            last' = Exchange("GET /api/contact", 0, EmptyObj, NoneInFlight, 200, list, list)
       \/ last' = Unanswered("GET /api/contact", 0, EmptyObj)
    /\ UNCHANGED <<store, nextId, now, uploaded, inflight, issued, focus>>

(***************************************************************************)
(* TESTIMONIALS                                                            *)
(***************************************************************************)
TestimonialShapes == {{}, {"name"}, {"name", "role", "company", "message", "rating"},
                      {"name", "createdAt"}}

\* { timestamps: true } on create: createdAt is set to the clock reading
\* unless the document already carries one, updatedAt to the same value.
TimestampsOnCreate(fields, reading) ==
    LET created == IF "createdAt" \in DOMAIN fields THEN fields.createdAt ELSE reading
    IN  Spread(fields, [createdAt |-> created, updatedAt |-> created])

\* { timestamps: true } on findByIdAndUpdate: createdAt is taken out of the
\* update, updatedAt is set to the clock reading.
TimestampsOnUpdate(fields, reading) ==
    Spread(Omit(fields, {"createdAt"}), [updatedAt |-> reading])

\* app.post("/api/testimonials"): res.json(await Testimonial.create(req.body))
PostTestimonial ==
    /\ focus = "Testimonial"
    /\ Receive
    /\ \E body \in Bodies(TestimonialShapes, issued + 1) :
        \/ \E reading \in Readings :
              /\ now' = reading
              /\ testimonials' = CreateDoc(testimonials,
                                    TimestampsOnCreate(body, reading), nextId)
              /\ nextId' = nextId + 1
              /\ last' = Exchange("POST /api/testimonials", 0, body, NoneInFlight, 200,
                                  testimonials'[Len(testimonials')],
                                  testimonials'[Len(testimonials')])
        \/ /\ last' = Unanswered("POST /api/testimonials", 0, body)
           /\ UNCHANGED <<testimonials, nextId, now>>
    /\ UNCHANGED <<profiles, projects, experiences, certifications, contacts,
                   uploaded, inflight, focus>>

\* app.put("/api/testimonials/:id"):
\* res.json(await Testimonial.findByIdAndUpdate(req.params.id, req.body, { new: true }))
PutTestimonial ==
    /\ focus = "Testimonial"
    /\ Receive
    /\ \E id \in ParamIds, body \in Bodies(TestimonialShapes, issued + 1) :
        \/ \E reading \in Readings :
              /\ now' = reading
              /\ testimonials' = UpdateById(testimonials, id,
                                            TimestampsOnUpdate(body, reading))
              /\ last' = Exchange("PUT /api/testimonials/:id", id, body, NoneInFlight, 200,
                                  FoundById(testimonials', id),
                                  FoundById(testimonials', id))
        \/ /\ last' = Unanswered("PUT /api/testimonials/:id", id, body)
           /\ UNCHANGED <<testimonials, now>>
    /\ UNCHANGED <<profiles, projects, experiences, certifications, contacts,
                   nextId, uploaded, inflight, focus>>

\* app.delete("/api/testimonials/:id")
DeleteTestimonial ==
    /\ focus = "Testimonial"
    /\ \E id \in ParamIds :
        \/ /\ testimonials' = DeleteById(testimonials, id)
           /\ last' = Exchange("DELETE /api/testimonials/:id", id, EmptyObj, NoneInFlight, 200,
                               FoundById(testimonials, id), [message |-> "Deleted"])
        \/ /\ last' = Unanswered("DELETE /api/testimonials/:id", id, EmptyObj)
           /\ UNCHANGED testimonials
    /\ UNCHANGED <<profiles, projects, experiences, certifications, contacts,
                   nextId, now, uploaded, inflight, issued, focus>>

\* app.get("/api/testimonials"):
\* res.json(await Testimonial.find().sort({ createdAt: -1 }))
GetTestimonials ==
    /\ focus = "Testimonial"
    /\ \/ \E list \in SortedByCreatedAtDesc(testimonials) :
            last' = Exchange("GET /api/testimonials", 0, EmptyObj, NoneInFlight, 200, list, list)
       \/ last' = Unanswered("GET /api/testimonials", 0, EmptyObj)
    /\ UNCHANGED <<store, nextId, now, uploaded, inflight, issued, focus>>

(***************************************************************************)
(* The specification.  The store starts empty.  No handler reads or writes *)
(* a collection of another record kind, so a behaviour exercises the       *)
(* routes of one kind, the one picked in focus, with at most MaxWrites     *)
(* POST and PUT requests and any number of GET and DELETE requests.        *)
(***************************************************************************)
Init ==
    /\ profiles = <<>>
    /\ projects = <<>>
    /\ experiences = <<>>
    /\ certifications = <<>>
    /\ contacts = <<>>
    /\ testimonials = <<>>
    /\ nextId = 1
    /\ now = 1
    /\ uploaded = {}
    /\ inflight = [s \in Slots |-> Idle]
    /\ last = Exchange("none", 0, EmptyObj, TRUE, 0, Null, Null)
    /\ issued = 0
    /\ focus \in Kinds

Next ==
    \/ \E s \in Slots : UploadResolve(s)
    \/ \E s \in Slots : UploadReject(s)
    \/ \E s \in Slots : PostProfile(s)
    \/ \E s \in Slots : ProfileFindOne(s)
    \/ \E s \in Slots : ProfileWrite(s)
    \/ GetProfile
    \/ \E s \in Slots : PostProject(s)
    \/ \E s \in Slots : ProjectCreate(s)
    \/ \E s \in Slots : PutProject(s)
    \/ \E s \in Slots : ProjectUpdate(s)
    \/ GetProjects
    \/ DeleteProject
    \/ PostExperience
    \/ GetExperience
    \/ PutExperience
    \/ DeleteExperience
    \/ \E s \in Slots : PostCertification(s)
    \/ \E s \in Slots : CertificationCreate(s)
    \/ GetCertifications
    \/ DeleteCertification
    \/ PostContact
    \/ PostContactPicked
    \/ GetContacts
    \/ PostTestimonial
    \/ PutTestimonial
    \/ DeleteTestimonial
    \/ GetTestimonials

Spec == Init /\ [][Next]_vars

(***************************************************************************)
(* Properties.                                                             *)
(***************************************************************************)
DeleteRoutes == {"DELETE /api/projects/:id", "DELETE /api/experience/:id",
                 "DELETE /api/certifications/:id", "DELETE /api/testimonials/:id"}

\* The fields a profile request supplies: those of its body, and photo with a file.
Supplied(r) == (DOMAIN r.body) \cup (IF r.file THEN {"photo"} ELSE {})

\* C1: the Profile collection holds zero or one document in every reachable
\* state, whatever the interleaving of the POST /api/profile requests in flight.
ProfileSingleton == Len(profiles) <= 1

\* C2: a request with an attached file whose upload fails writes nothing: it
\* ends with every collection as it was and a 500 error response, and a
\* handler never gets past the upload without the URL.
UploadFailureWritesNothing ==
    [][\A s \in Slots :
        /\ (inflight[s] # Idle /\ inflight[s].file /\ inflight[s].url = ""
                /\ inflight'[s] = Idle)
            => /\ store' = store
               /\ nextId' = nextId
               /\ last'.route = inflight[s].route
               /\ last'.status = 500
               /\ "error" \in DOMAIN last'.json
        /\ (inflight'[s] # Idle /\ inflight'[s].file /\ inflight'[s].url = "")
            => inflight'[s].pc = "upload"
      ]_vars

UploadFailureWitness ==
    /\ last.route \in UploadRoutes
    /\ last.status = 500
    /\ last.json = ErrorJson("upload failed")
    /\ Len(profiles) + Len(projects) + Len(certifications) > 0

\* C3: a POST /api/profile handled alone while a Profile exists keeps the
\* identifier of every document, adds no document, and leaves every field the
\* request does not supply (photo included when no file is attached) as it was.
ProfileUpdateKeepsAbsentFields ==
    [][\A s \in Slots :
        (/\ inflight[s] # Idle
         /\ inflight[s].route = "POST /api/profile"
         /\ inflight[s].solo
         /\ Len(profiles) > 0
         /\ inflight'[s] = Idle
         /\ last'.status = 200)
        => /\ Len(profiles') = Len(profiles)
           /\ \A i \in 1..Len(profiles) : profiles'[i]._id = profiles[i]._id
           /\ \A i \in 2..Len(profiles) : profiles'[i] = profiles[i]
           /\ last'.json = profiles'[1]
           /\ \A f \in ProfileFields \ Supplied(inflight[s]) :
                  Pick(profiles'[1], {f}) = Pick(profiles[1], {f})
      ]_vars

ProfileUpdateWitness ==
    /\ last.route = "POST /api/profile"
    /\ last.status = 200
    /\ last.solo
    /\ nextId = 2
    /\ Len(profiles) = 1
    /\ DOMAIN last.body = {"name"}
    /\ "title" \in DOMAIN profiles[1]
    /\ profiles[1].name = Texts[2]
    /\ profiles[1].title = Texts[1]

\* C4: a POST /api/profile handled alone while no Profile exists, whose
\* upload (if any) and store calls succeed, leaves exactly one Profile; its
\* fields are those of the body, and with a file its photo is the URL the
\* upload of this request returned, whatever photo the body carries.
ProfileCreatedFromRequest ==
    [][\A s \in Slots :
        (/\ inflight[s] # Idle
         /\ inflight[s].route = "POST /api/profile"
         /\ inflight[s].solo
         /\ Len(profiles) = 0
         /\ inflight'[s] = Idle
         /\ last'.status = 200)
        => /\ Len(profiles') = 1
           /\ DOMAIN profiles'[1] = {"_id"} \cup Supplied(inflight[s])
           /\ \A f \in (DOMAIN inflight[s].body) \ {"photo"} :
                  profiles'[1][f] = inflight[s].body[f]
           /\ inflight[s].file
                => /\ profiles'[1].photo = Urls[inflight[s].n]
                   /\ profiles'[1].photo \in uploaded
           /\ (~inflight[s].file /\ "photo" \in DOMAIN inflight[s].body)
                => profiles'[1].photo = inflight[s].body.photo
      ]_vars

ProfileCreatedWitness ==
    /\ last.route = "POST /api/profile"
    /\ last.status = 200
    /\ last.solo
    /\ issued = 1
    /\ Len(profiles) = 1
    /\ "photo" \in DOMAIN last.body
    /\ profiles[1].photo \in uploaded
    /\ profiles[1].photo # last.body.photo

\* C5: a POST /api/contact whose name, email or message is missing or empty
\* is answered 400 and creates nothing, and every stored Contact has a
\* non-empty name, email and message.
ContactRequiresThreeFields ==
    [][/\ (/\ issued' # issued
           /\ last'.route = "POST /api/contact"
           /\ \E k \in ContactRequired :
                  k \notin DOMAIN last'.body \/ last'.body[k] = "")
          => /\ last'.status = 400
             /\ store' = store
             /\ nextId' = nextId
       /\ \A i \in 1..Len(contacts') : \A k \in ContactRequired :
              k \in DOMAIN contacts'[i] /\ contacts'[i][k] # ""
      ]_vars

ContactRejectedWitness ==
    /\ last.route = "POST /api/contact"
    /\ last.status = 400
    /\ "email" \in DOMAIN last.body
    /\ last.body.email = ""
    /\ Len(contacts) = 1

\* C6: GET /api/contact and GET /api/testimonials list the records newest
\* first by the moment of their creation: of two records the one created
\* later (the one with the later generated _id) comes first, whatever fields
\* the request bodies carried.
ListedNewestFirst ==
    (last.route \in {"GET /api/contact", "GET /api/testimonials"} /\ last.status = 200)
        => \A i, j \in 1..Len(last.json) :
               i < j => last.json[i]._id > last.json[j]._id

\* The same listing property for the records whose stored createdAt differ:
\* it fails too, on a create whose body carries its own createdAt.
ListedNewestFirstApartFromTies ==
    (last.route \in {"GET /api/contact", "GET /api/testimonials"} /\ last.status = 200)
        => \A i, j \in 1..Len(last.json) :
               (i < j /\ last.json[i].createdAt # last.json[j].createdAt)
                   => last.json[i]._id > last.json[j]._id

RemovedAtMostThatOne(coll, coll2, id) ==
    \/ id \notin Ids(coll) /\ coll2 = coll
    \/ \E i \in 1..Len(coll) :
          /\ coll[i]._id = id
          /\ coll2 = SubSeq(coll, 1, i - 1) \o SubSeq(coll, i + 1, Len(coll))

DeleteAcknowledgment(route) ==
    CASE route = "DELETE /api/projects/:id" -> [message |-> "Project deleted"]
      [] route = "DELETE /api/experience/:id" -> [message |-> "Experience deleted"]
      [] OTHER -> [message |-> "Deleted"]

ImagesComeFromUploads ==
    /\ \A i \in 1..Len(profiles) :
           "photo" \in DOMAIN profiles[i] => profiles[i].photo \in uploaded
    /\ \A i \in 1..Len(projects) :
           "image" \in DOMAIN projects[i] => projects[i].image \in uploaded
    /\ \A i \in 1..Len(certifications) :
           "image" \in DOMAIN certifications[i] => certifications[i].image \in uploaded

RECURSIVE TrimStart(_)
TrimStart(str) ==
    IF Len(str) > 0 /\ Head(str) = " " THEN TrimStart(Tail(str)) ELSE str

RECURSIVE TrimEnd(_)
TrimEnd(str) ==
    IF Len(str) > 0 /\ str[Len(str)] = " "
    THEN TrimEnd(SubSeq(str, 1, Len(str) - 1)) ELSE str

Trim(str) == TrimEnd(TrimStart(str))

\* C10: a Project created or updated with a comma-separated tech string
\* stores the substrings between the commas, in order, each trimmed.
TechIsSplitAndTrimmed ==
    (/\ last.route \in {"POST /api/projects", "PUT /api/projects/:id"}
     /\ last.status = 200
     /\ "tech" \in DOMAIN last.body
     /\ last.json # Null)
    => /\ Len(last.json.tech) = Len(Split(last.body.tech))
       /\ \A i \in 1..Len(last.json.tech) :
              last.json.tech[i] = Trim(Split(last.body.tech)[i])

\* A POST /api/projects without a tech field that created its Project left
\* the new document without a tech field.
CreateWithoutTechOmitsTech ==
    \A s \in Slots :
        (/\ inflight[s] # Idle
         /\ inflight[s].route = "POST /api/projects"
         /\ "tech" \notin DOMAIN inflight[s].body
         /\ inflight'[s] = Idle
         /\ last'.status = 200)
        => /\ Len(projects') = Len(projects) + 1
           /\ "tech" \notin DOMAIN projects'[Len(projects')]

\* A PUT /api/projects/:id without a tech field that was answered 200 left
\* the tech of every stored Project as it was.
PutWithoutTechKeepsTech ==
    \A s \in Slots :
        (/\ inflight[s] # Idle
         /\ inflight[s].route = "PUT /api/projects/:id"
         /\ "tech" \notin DOMAIN inflight[s].body
         /\ inflight'[s] = Idle
         /\ last'.status = 200)
        => /\ Len(projects') = Len(projects)
           /\ \A i \in 1..Len(projects) :
                  Pick(projects'[i], {"tech"}) = Pick(projects[i], {"tech"})

\* C11: a POST /api/projects whose request has no tech field creates a Project
\* with no tech field at all (not an empty sequence), and a PUT
\* /api/projects/:id with no tech field leaves the stored tech as it was.
AbsentTechIsNotStored == [][CreateWithoutTechOmitsTech /\ PutWithoutTechKeepsTech]_vars

\* The second half of C11 alone: it holds.
AbsentTechIsKeptOnUpdate == [][PutWithoutTechKeepsTech]_vars

\* A PUT without tech answered with a Project whose tech was stored from a
\* tech string.
AbsentTechIsKeptWitness ==
    /\ last.route = "PUT /api/projects/:id"
    /\ last.status = 200
    /\ "tech" \notin DOMAIN last.body
    /\ last.json # Null
    /\ Len(last.json.tech) = 2

\* The routes whose handler wraps its awaits in try/catch.
GuardedRoutes == UploadRoutes

\* C12: on every route a request whose blob upload or store operation throws
\* is answered with status 500 and a body carrying the error message: no
\* handler ends without having sent a response.
EveryFailureIsAnswered ==
    last.route # "none"
        => /\ last.status # 0
           /\ last.status \notin {200, 400}
                  => (last.status = 500 /\ "error" \in DOMAIN last.json)

\* The same for the guarded routes alone: it holds.
GuardedFailuresAreAnswered ==
    last.route \in GuardedRoutes
        => /\ last.status # 0
           /\ last.status # 200
                  => (last.status = 500 /\ "error" \in DOMAIN last.json)

\* A store call of a guarded route threw and was answered.
GuardedFailureWitness ==
    /\ last.route \in GuardedRoutes
    /\ last.status = 500
    /\ last.json = ErrorJson("store failed")

=============================================================================
